---- MODULE Spec2Model ----
(***************************************************************************)
(* packio: the JSON incremental framer (nl_json_rpc/incremental_buffers.h) *)
(* and the msgpack-RPC client call table (client.h).                       *)
(*                                                                         *)
(* Two independent state machines share this module:                      *)
(*   FramerSpec  - incremental_buffers fed a byte stream in chunks         *)
(*   Spec        - client: async_call, timers, write completion, reader    *)
(* Bytes are one-character strings; offsets in the operators below are     *)
(* 0-based as in the C++ code, TLA+ sequences are 1-based (hence the +1).   *)
(***************************************************************************)
EXTENDS Integers, Sequences, FiniteSets, TLC

(***************************************************************************)
(* Bounds                                                                  *)
(***************************************************************************)
\* longest byte stream delivered to the framer
MaxStreamLen == 8
\* bytes reserved by a caller of reserve_in_place_buffer before a read
InPlaceReserve == 2

(***************************************************************************)
(* Framer state (incremental_buffers private members)                      *)
(***************************************************************************)
VARIABLES
    in_string_,          \* bool in_string_
    depth_,              \* int depth_
    first_char_,         \* char first_char_
    last_char_,          \* char last_char_
    tokens_,             \* const char* tokens_ (as the set of its characters)
    buffer_,             \* std::string_view buffer_: a prefix of raw_buffer_, kept as its size
    raw_buffer_,         \* std::string raw_buffer_
    serialized_objects_, \* std::deque<std::string>
    ndebug,              \* whether the build defines NDEBUG (assert compiled out)
    aborted,             \* an assert of a debug build has failed
    items,               \* the input: messages and separators, in order
    stream,              \* bytes of the input not yet delivered
    got,                 \* buffers returned so far by get_parsed_buffer
    bare                 \* a second incremental_buffers, given the same chunks
                         \* with the separator bytes taken out

framerVars == <<in_string_, depth_, first_char_, last_char_, tokens_, buffer_,
                raw_buffer_, serialized_objects_, ndebug, aborted, items,
                stream, got, bare>>

(***************************************************************************)
(* Client state (client private members, and the operations in progress)   *)
(***************************************************************************)
VARIABLES
    id_,             \* std::atomic<uint32_t> id_
    pending_,        \* std::map<uint32_t, tuple<handler, timer>>, as a set of
                     \* [id, handler, timer]; handler/timer name the owning call
    pending_mutex_,  \* owner of pending_mutex_, or Free
    timeout_,        \* duration_type timeout_
    reading_,        \* std::atomic_flag reading_
    socketOpen,      \* socket_ is open
    callPc,          \* position of each async_call
    callId,          \* the local id of each async_call
    callTimeout,     \* the timeout_ each async_call read at line 129
    timerSt,         \* state of each call's timer wait and of its handler
    timerEntry,      \* the tuple moved out of pending_ by a timer handler
    writeSt,         \* state of each call's async_write
    mchPc,           \* position of each thread inside maybe_call_handler
    mchArg,          \* arguments (id, result, ec) of that invocation
    mchEntry,        \* the (handler, timer) moved out of pending_ by it
    readerSt,        \* state of the read chain
    readerMsg,       \* the response being dispatched
    wire,            \* messages on their way from the peer to the client
    served,          \* calls whose request reached the server
    replies,         \* the reply the server wrote for each call
    garbage,         \* the peer has sent a malformed message
    outcomes,        \* per call, the (ec, value) pairs given to its completion
    consumed,        \* per call, the paths that erased its entry
    lost,            \* lookups that found no entry, as <<path, id>>
    readChains,      \* number of read chains started by maybe_start_reading
    notifyPc,        \* position of each async_notify
    notifyOutcomes   \* per notification, the error codes given to its handler

clientVars == <<id_, pending_, pending_mutex_, timeout_, reading_, socketOpen,
                callPc, callId, callTimeout, timerSt, timerEntry, writeSt, mchPc, mchArg,
                mchEntry, readerSt, readerMsg, wire, served, replies, garbage,
                outcomes, consumed, lost, readChains, notifyPc, notifyOutcomes>>

\* the server: dispatcher and requests being handled
VARIABLES
    registry,        \* the dispatcher's entries, as (name, kind of handler)
    dispRet,         \* the last operation on the dispatcher and what it returned
    srvSt,           \* state of each request or notification at the server
    srvReq,          \* the decoded message: kind, method, id
    srvKind,         \* the kind of handler the lookup found, or "miss"
    srvInvoked,      \* the completion handler has been invoked
    srvLog,          \* the invocations the handler made, in order
    srvReplies       \* the replies written on the wire for each request

serverVars == <<registry, dispRet, srvSt, srvReq, srvKind, srvInvoked, srvLog,
                srvReplies>>

vars == <<framerVars, clientVars, serverVars>>

NPOS == -1
NUL == "0"

\* std::string_view::find_first_of(chars, from) on the sequence s, 0-based
RECURSIVE find_first_of(_, _, _)
find_first_of(s, chars, from) ==
    IF from >= Len(s) THEN NPOS
    ELSE IF s[from + 1] \in chars THEN from
    ELSE find_first_of(s, chars, from + 1)

\* the view buffer_ of a framer record
BufferOf(f) == SubSeq(f.raw_buffer_, 1, f.buffer_)

\* is_escaped(pos): parity of the run of backslashes that ends right before pos
RECURSIVE is_escaped_from(_, _, _)
is_escaped_from(buf, pos, escaped) ==
    IF pos > 0 /\ buf[pos] = "\\"
    THEN is_escaped_from(buf, pos - 1, ~escaped)
    ELSE escaped

is_escaped(f, pos) == is_escaped_from(BufferOf(f), pos, FALSE)

\* initialize(first_char)
initialize(f, first_char) ==
    [f EXCEPT !.first_char_ = first_char,
              !.last_char_ = IF first_char = "{" THEN "}" ELSE "]",
              !.tokens_ = IF first_char = "{" THEN {"{", "}", "\""}
                          ELSE {"[", "]", "\""},
              !.aborted = f.aborted \/ (~f.ndebug /\ first_char \notin {"{", "["}),
              !.depth_ = 1,
              !.in_string_ = FALSE]

\* the "found object" block: store raw_buffer_[0, token_pos] and keep the rest
StoreObject(f, token_pos) ==
    LET buffer_size == token_pos + 1
        new_raw_buffer == SubSeq(f.raw_buffer_, buffer_size + 1, Len(f.raw_buffer_))
        bytes_left == f.buffer_ - buffer_size
    IN [f EXCEPT !.depth_ = 0,
                 !.serialized_objects_ =
                     Append(@, SubSeq(f.raw_buffer_, 1, buffer_size)),
                 !.raw_buffer_ = new_raw_buffer,
                 !.buffer_ = bytes_left]

\* the while(true) loop of incremental_parse; start is token_pos + 1
\* (after StoreObject token_pos - buffer_size wraps to SIZE_MAX, so start is 0)
RECURSIVE ScanTokens(_, _)
ScanTokens(f, start) ==
    LET token_pos == find_first_of(BufferOf(f), f.tokens_, start)
        token == BufferOf(f)[token_pos + 1]
    IN IF f.aborted \/ token_pos = NPOS THEN f
       ELSE IF token = "\"" /\ ~is_escaped(f, token_pos)
            THEN ScanTokens([f EXCEPT !.in_string_ = ~f.in_string_], token_pos + 1)
       ELSE IF f.in_string_ THEN ScanTokens(f, token_pos + 1)
       ELSE IF token = f.last_char_
            THEN IF f.depth_ - 1 = 0
                 THEN ScanTokens(StoreObject(f, token_pos), 0)
                 ELSE ScanTokens([f EXCEPT !.depth_ = f.depth_ - 1], token_pos + 1)
       ELSE IF token # f.first_char_ /\ ~f.ndebug
            THEN [f EXCEPT !.aborted = TRUE]
       ELSE ScanTokens([f EXCEPT !.depth_ = f.depth_ + 1], token_pos + 1)

\* incremental_parse(bytes): the new bytes are already in raw_buffer_ at
\* offset buffer_.size()
incremental_parse(f, bytes) ==
    LET new_data == SubSeq(f.raw_buffer_, f.buffer_ + 1, f.buffer_ + bytes)
        first_pos == find_first_of(new_data, {"{", "["}, 0)
        token_pos == f.buffer_
    IN IF f.buffer_ = 0 /\ first_pos = NPOS THEN f
       ELSE LET g == IF f.buffer_ = 0
                     THEN initialize(f, new_data[first_pos + 1])
                     ELSE f
            IN ScanTokens([g EXCEPT !.buffer_ = f.buffer_ + bytes], token_pos + 1)

\* in_place_buffer_capacity()
in_place_buffer_capacity(f) == Len(f.raw_buffer_) - f.buffer_

\* reserve_in_place_buffer(bytes): std::string::resize pads with NUL
reserve_in_place_buffer(f, bytes) ==
    IF in_place_buffer_capacity(f) >= bytes THEN f
    ELSE [f EXCEPT !.raw_buffer_ =
             @ \o [i \in 1..(f.buffer_ + bytes - Len(@)) |-> NUL]]

\* the caller's write of data at in_place_buffer()
WriteInPlace(f, data) ==
    [f EXCEPT !.raw_buffer_ =
        [i \in 1..Len(@) |->
            IF i > f.buffer_ /\ i <= f.buffer_ + Len(data)
            THEN data[i - f.buffer_] ELSE @[i]]]

\* in_place_buffer_consumed(bytes)
in_place_buffer_consumed(f, bytes) ==
    IF bytes = 0 THEN f ELSE incremental_parse(f, bytes)

\* feed(data)
feed(f, data) ==
    in_place_buffer_consumed(
        WriteInPlace(reserve_in_place_buffer(f, Len(data)), data), Len(data))

\* the framer as a record, and back
FramerRec ==
    [in_string_ |-> in_string_, depth_ |-> depth_, first_char_ |-> first_char_,
     last_char_ |-> last_char_, tokens_ |-> tokens_, buffer_ |-> buffer_,
     raw_buffer_ |-> raw_buffer_, serialized_objects_ |-> serialized_objects_,
     ndebug |-> ndebug, aborted |-> aborted]

SetFramer(f) ==
    /\ in_string_' = f.in_string_
    /\ depth_' = f.depth_
    /\ first_char_' = f.first_char_
    /\ last_char_' = f.last_char_
    /\ tokens_' = f.tokens_
    /\ buffer_' = f.buffer_
    /\ raw_buffer_' = f.raw_buffer_
    /\ serialized_objects_' = f.serialized_objects_
    /\ aborted' = f.aborted
    /\ UNCHANGED ndebug

(***************************************************************************)
(* Framer inputs: bracket-balanced JSON messages and whitespace            *)
(***************************************************************************)
\* {}   []   [[]]   [{}]   ["]"]   ["\""]   ["\\"]
JsonMessages ==
    { <<"{", "}">>,
      <<"[", "]">>,
      <<"[", "[", "]", "]">>,
      <<"[", "{", "}", "]">>,
      <<"[", "\"", "]", "\"", "]">>,
      <<"[", "\"", "\\", "\"", "\"", "]">>,
      <<"[", "\"", "\\", "\\", "\"", "]">> }

Whitespace == <<" ">>

RECURSIVE ItemSeqs(_)
\* every sequence of messages and separators of total length at most n
ItemSeqs(n) ==
    {<<>>} \cup
    UNION { { <<m>> \o s : s \in ItemSeqs(n - Len(m)) } :
            m \in { x \in JsonMessages \cup {Whitespace} : Len(x) <= n } }

RECURSIVE Flatten(_)
Flatten(ss) == IF ss = <<>> THEN <<>> ELSE Head(ss) \o Flatten(Tail(ss))

\* the messages of an item sequence, separators dropped
RECURSIVE MessagesOf(_)
MessagesOf(ss) ==
    IF ss = <<>> THEN <<>>
    ELSE IF Head(ss) = Whitespace THEN MessagesOf(Tail(ss))
    ELSE <<Head(ss)>> \o MessagesOf(Tail(ss))

FramerInit ==
    \* the members are uninitialized until initialize() runs; they are not
    \* read before that
    /\ in_string_ \in BOOLEAN
    /\ depth_ \in {0, -1}
    /\ first_char_ = NUL
    /\ last_char_ = NUL
    /\ tokens_ = {}
    /\ buffer_ = 0
    /\ raw_buffer_ = <<>>
    /\ serialized_objects_ = <<>>
    /\ ndebug \in BOOLEAN
    /\ aborted = FALSE
    /\ items \in ItemSeqs(MaxStreamLen)
    /\ stream = Flatten(items)
    /\ got = <<>>
    /\ bare = FramerRec

\* the bytes of data that are not separators
RECURSIVE NoWhitespace(_)
NoWhitespace(data) ==
    IF data = <<>> THEN <<>>
    ELSE IF Head(data) = " " THEN NoWhitespace(Tail(data))
    ELSE <<Head(data)>> \o NoWhitespace(Tail(data))

\* feed(data) with the next n bytes of the stream
Feed(n) ==
    /\ ~aborted
    /\ n \in 1..Len(stream)
    /\ SetFramer(feed(FramerRec, SubSeq(stream, 1, n)))
    /\ bare' = IF bare.aborted THEN bare
               ELSE feed(bare, NoWhitespace(SubSeq(stream, 1, n)))
    /\ stream' = SubSeq(stream, n + 1, Len(stream))
    /\ UNCHANGED <<items, got, clientVars, serverVars>>

\* reserve_in_place_buffer(InPlaceReserve), a read of n bytes into
\* in_place_buffer(), then in_place_buffer_consumed(n)
ReadInPlace(n) ==
    /\ ~aborted
    /\ n \in 1..Len(stream)
    /\ LET f == reserve_in_place_buffer(FramerRec, InPlaceReserve)
       IN /\ n <= in_place_buffer_capacity(f)
          /\ SetFramer(in_place_buffer_consumed(
                 WriteInPlace(f, SubSeq(stream, 1, n)), n))
    /\ bare' = IF bare.aborted THEN bare
               ELSE feed(bare, NoWhitespace(SubSeq(stream, 1, n)))
    /\ stream' = SubSeq(stream, n + 1, Len(stream))
    /\ UNCHANGED <<items, got, clientVars, serverVars>>

\* get_parsed_buffer() when a buffer is available
GetParsedBuffer ==
    /\ ~aborted
    /\ serialized_objects_ # <<>>
    /\ got' = Append(got, Head(serialized_objects_))
    /\ serialized_objects_' = Tail(serialized_objects_)
    /\ UNCHANGED <<in_string_, depth_, first_char_, last_char_, tokens_, buffer_,
                   raw_buffer_, ndebug, aborted, items, stream, bare,
                   clientVars, serverVars>>

FramerNext ==
    \/ \E n \in 1..MaxStreamLen : Feed(n)
    \/ \E n \in 1..InPlaceReserve : ReadInPlace(n)
    \/ GetParsedBuffer

(***************************************************************************)
(* Framer properties                                                       *)
(***************************************************************************)
\* everything the framer has emitted, fetched or not, in order
Emitted == got \o serialized_objects_

\* the bytes delivered so far
Delivered ==
    SubSeq(Flatten(items), 1, Len(Flatten(items)) - Len(stream))

\* the input has no separators: it is a plain concatenation of messages
Concatenated == MessagesOf(items) = items

\* C1: JSON framing round-trip. Once a concatenation of bracket-balanced
\* messages has been delivered, in whatever chunks, the framer has emitted
\* exactly those messages, in order.
C1_RoundTrip ==
    (Concatenated /\ stream = <<>> /\ ~aborted) => Emitted = MessagesOf(items)

\* number of backslashes that immediately precede (1-based) position i of s
RECURSIVE BackslashRun(_, _)
BackslashRun(s, i) ==
    IF i > 1 /\ s[i - 1] = "\\" THEN 1 + BackslashRun(s, i - 1) ELSE 0

\* the positions of s holding a quote preceded by an even number of backslashes
OpenQuotes(s) ==
    { i \in 1..Len(s) : s[i] = "\"" /\ BackslashRun(s, i) % 2 = 0 }

\* whether the end of s lies inside a JSON string
InsideString(s) == Cardinality(OpenQuotes(s)) % 2 = 1

\* bracket depth after each prefix of s, brackets inside strings not counted
RECURSIVE DepthAt(_, _)
DepthAt(s, i) ==
    IF i = 0 THEN 0
    ELSE LET d == DepthAt(s, i - 1)
         IN IF InsideString(SubSeq(s, 1, i)) \/ InsideString(SubSeq(s, 1, i - 1))
            THEN d
            ELSE IF s[i] \in {"{", "["} THEN d + 1
            ELSE IF s[i] \in {"}", "]"} THEN d - 1
            ELSE d

\* s ends exactly at the closer matching its first opener
EndsAtMatchingClose(s) ==
    /\ s # <<>>
    /\ s[Len(s)] \in {"}", "]"}
    /\ DepthAt(s, Len(s)) = 0
    /\ \A i \in 1..(Len(s) - 1) : DepthAt(s, i) = 0 => DepthAt(s, i - 1) = 0

\* C5: the framer never emits a prefix. Every emitted buffer is
\* bracket-balanced and ends exactly at the closer matching its opener.
C5_NoPrefix ==
    \A k \in 1..Len(Emitted) : EndsAtMatchingClose(Emitted[k])

\* an opener has been delivered, so initialize() has run
OpenerDelivered == \E i \in 1..Len(Delivered) : Delivered[i] \in {"{", "["}

\* C6: string robustness. The in-string state follows the quotes preceded
\* by an even number of backslashes, wherever the chunk boundaries fall, so
\* the framer is in-string exactly when the delivered bytes end inside a
\* string.
C6_StringState ==
    (OpenerDelivered /\ ~aborted) => in_string_ = InsideString(Delivered)

\* the buffers of ss with their separator bytes taken out
StripAll(ss) == [k \in 1..Len(ss) |-> NoWhitespace(ss[k])]

\* C7: whitespace between messages is ignored. The framer has emitted the
\* same messages, in the same order and as early, as a framer given the
\* same chunks without the separator bytes.
C7_WhitespaceIgnored ==
    (~aborted /\ ~bare.aborted) => StripAll(Emitted) = bare.serialized_objects_

(***************************************************************************)
(* Client (client.h): call table, timers, write completion, read chain     *)
(***************************************************************************)
\* number of async_call invocations
MaxCalls == 2
\* number of async_notify invocations
MaxNotifies == 1

\* TLC integers are 32-bit, so a uint32_t u is written u when u <= INT_MAX
\* and u - 2^32 (its int32_t bit pattern) otherwise
IntMax == 2147483647
IntMin == -IntMax - 1

Calls == 1..MaxCalls
Notifies == 1..MaxNotifies
\* the thread running the read handler; write handler c runs as thread c
Reader == 0
MchThreads == {Reader} \cup Calls
NoCall == 0
Free == <<"free", 0>>

\* msgpack objects
NIL == [type |-> "NIL", v |-> 0]
MpStr(v) == [type |-> "STR", v |-> v]
MpInt(v) == [type |-> "INT", v |-> v]
MpArr(v) == [type |-> "ARRAY", v |-> v]
NoMsg == [type |-> "NONE", v |-> 0]

\* msgpack_rpc_type
REQUEST == 0
RESPONSE == 1
NOTIFICATION == 2

\* a counter that is not advanced
FetchAdd_Stuck(id) == id

\* id_.fetch_add(1): the value stored
FetchAdd(id) == IF id = -1 THEN 0 ELSE IF id = IntMax THEN IntMin ELSE id + 1

\* a lookup that takes whatever entry there is
Find_Any(pending, id) == pending

\* pending_.find(id): the entries under the key id
Find(pending, id) == { e \in pending : e.id = id }

\* an insertion that replaces the entry under the key
TryEmplace_Replace(pending, id, c) ==
    {e \in pending : e.id # id} \cup {[id |-> id, handler |-> c, timer |-> c]}

\* an insertion that is left out
TryEmplace_Skip(pending, id, c) == pending

\* pending_.try_emplace(id, handler, executor): no insertion if the key exists
TryEmplace(pending, id, c) ==
    IF Find(pending, id) # {} THEN pending
    ELSE pending \cup {[id |-> id, handler |-> c, timer |-> c]}

\* an erase that leaves the entry in the table
Erase_Keep(pending, e) == pending

\* an erase that empties the table
Erase_All(pending, e) == {}

\* pending_.erase(pending_it)
Erase(pending, e) == pending \ {e}

\* the argument of call c and what the handler "double" returns for it
ArgOf(c) == 40 + c
Double(n) == 2 * n

\* the request packed by async_call
Request(id, c) == MpArr(<<MpInt(REQUEST), MpInt(id), MpStr("double"), MpArr(<<MpInt(ArgOf(c))>>)>>)

\* as<int>() on a msgpack object holding a uint32_t: throws on a non-integer
\* and on a value above INT_MAX
AsIntThrows(o) == o.type # "INT" \/ o.v < 0

\* the int id of maybe_call_handler converted to the uint32_t key of find:
\* the bit pattern is kept
ToKey(id) == id

\* a check that also rejects the responses that carry an error
verify_reponse_NilError(response) ==
    /\ response.type = "ARRAY"
    /\ Len(response.v) = 4
    /\ response.v[1].type = "INT"
    /\ response.v[1].v = RESPONSE
    /\ response.v[3] = NIL

\* verify_reponse(response), where as<int>() of the tag does not throw (see
\* VerifyThrows)
verify_reponse(response) ==
    /\ response.type = "ARRAY"
    /\ Len(response.v) = 4
    /\ response.v[1].type = "INT"
    /\ response.v[1].v = RESPONSE

\* an error code without a message
Message_None(ec) == NIL

\* ec.message() of a transport error, and of packio's error::timeout
Message(ec) == MpStr("message: " \o ec)

\* a timer armed also when the timeout is 0
TimerWanted_NonNegative(timeout) == timeout >= 0

\* a timer armed whatever the timeout is
TimerWanted_Always(timeout) == TRUE

\* async_call, line 129: whether async_timeout is called
TimerWanted(timeout) == timeout > 0

\* a test that does not set the flag
TestAndSet_NoSet(flag) == flag

\* reading_.test_and_set(): the value the flag has afterwards
TestAndSet(flag) == TRUE

\* a handler called a second time
NotifyHandler_Twice(outs, ec) == Append(Append(outs, ec), ec)

\* async_notify, line 90: handler(ec), recorded in the outcomes of the
\* notification
NotifyHandler(outs, ec) == Append(outs, ec)

\* as<int>() of the tag in verify_reponse, line 281, is reached by an array
\* of size 4 and throws when the tag is no integer
VerifyThrows(response) ==
    /\ response.type = "ARRAY"
    /\ Len(response.v) = 4
    /\ AsIntThrows(response.v[1])

\* an unlock that is forgotten
Unlock_Held(holder) == holder

\* lock.unlock(), lines 208 and 264: the mutex after its holder released it
Unlock(holder) == Free

\* the arguments a completion is invoked with
HandlerArgs(ec, value) == [ec |-> ec, value |-> value]

\* timer.cancel(): a wait that has not completed is aborted
Cancel(st) == IF st = "armed" THEN "aborted" ELSE st

\* a timer whose wait is never started
Arm_Never(st) == st

\* timer.expires_after(timeout_) + timer.async_wait(...)
Arm(st) == IF st \in {"none", "armed", "aborted"} THEN "armed" ELSE st

\* the response the server packs for request id
Response(id, err, result) == MpArr(<<MpInt(RESPONSE), MpInt(id), err, result>>)

\* messages that are no response: not an array, wrong size, wrong tag, and
\* a tag that is no integer
GarbageMessages ==
    { MpInt(7),
      MpArr(<<MpInt(NOTIFICATION), MpStr("m"), MpArr(<<>>)>>),
      MpArr(<<MpInt(REQUEST), MpInt(0), MpStr("m"), MpArr(<<>>)>>),
      MpArr(<<MpStr("response"), MpInt(0), NIL, MpInt(0)>>) }

\* errors a server handler replies with
CallErrors == { MpStr("Unknown function") }

\* a dispatch that reports every response as a success
DispatchArgs_Success(id, err, result) == [id |-> id, result |-> result, ec |-> "success"]

\* dispatch, lines 235-246: the arguments handed to maybe_call_handler
DispatchArgs(id, err, result) ==
    IF err.type # "NIL"
    THEN [id |-> id, result |-> err, ec |-> "call_error"]
    ELSE [id |-> id, result |-> result, ec |-> "success"]

\* which caller of maybe_call_handler thread t is
MchPath(t) == IF t = Reader THEN "response" ELSE "write"

\* the client right after construction
ClientInit ==
    /\ id_ = 0
    /\ pending_ = {}
    /\ pending_mutex_ = Free
    /\ timeout_ = 0
    /\ reading_ = FALSE
    /\ socketOpen = TRUE
    /\ callPc = [c \in Calls |-> "idle"]
    /\ callId = [c \in Calls |-> 0]
    /\ callTimeout = [c \in Calls |-> 0]
    /\ timerSt = [c \in Calls |-> "none"]
    /\ timerEntry = [c \in Calls |-> NoCall]
    /\ writeSt = [c \in Calls |-> "none"]
    /\ mchPc = [t \in MchThreads |-> "idle"]
    /\ mchArg = [t \in MchThreads |-> NoMsg]
    /\ mchEntry = [t \in MchThreads |-> NoCall]
    /\ readerSt = "off"
    /\ readerMsg = NoMsg
    /\ wire = {}
    /\ served = {}
    /\ replies = [c \in Calls |-> NoMsg]
    /\ garbage = FALSE
    /\ outcomes = [c \in Calls |-> <<>>]
    /\ consumed = [c \in Calls |-> <<>>]
    /\ lost = {}
    /\ readChains = 0
    /\ notifyPc = [n \in Notifies |-> "idle"]
    /\ notifyOutcomes = [n \in Notifies |-> <<>>]

\* a framer that is given nothing
FramerIdle ==
    /\ in_string_ = FALSE
    /\ depth_ = 0
    /\ first_char_ = NUL
    /\ last_char_ = NUL
    /\ tokens_ = {}
    /\ buffer_ = 0
    /\ raw_buffer_ = <<>>
    /\ serialized_objects_ = <<>>
    /\ ndebug = FALSE
    /\ aborted = FALSE
    /\ items = <<>>
    /\ stream = <<>>
    /\ got = <<>>
    /\ bare = FramerRec

\* ---------------------------------------------------------------------
\* The server side: the dispatcher (a registry of name -> handler) and the
\* completion handler of a request, as the specification describes them
\* (sections 4.3 and 4.4) and as the tests of src/test_package use them.

MaxRequests == 2
MaxInvocations == 2

Requests == 1..MaxRequests

\* the names the tests register, basic.cpp lines 232-235
Names == {"f001", "f002"}

\* handler: variant { SyncHandler, AsyncHandler, CoroutineHandler }
Kinds == {"sync", "async", "coro"}

\* what a handler may do with its completion handler: complete(value),
\* set_error(msg), set_error()
Invocations == {"complete", "set_error_msg", "set_error"}

NoReq == [kind |-> "none", method |-> "", id |-> 0]
NoRet == [op |-> "none", name |-> "", ret |-> FALSE]

\* has(name)
has(reg, name) == \E e \in reg : e.name = name

\* known(): the snapshot of the registered names
known(reg) == {e.name : e \in reg}

\* an insertion that does not look for the name
Emplace_Always(reg, name, kind) == reg \cup {[name |-> name, kind |-> kind]}

\* add*(name, f): the entry is inserted unless the name is present
Emplace(reg, name, kind) ==
    IF has(reg, name) THEN reg ELSE reg \cup {[name |-> name, kind |-> kind]}

\* remove(name): the registry without the name
EraseName(reg, name) == {e \in reg : e.name # name}

\* the value a handler completes with, and the message the test gives to
\* set_error (basic.cpp line 340)
ResultValue == MpInt(0)
kErrorMessage == "error message"

\* the reply of an invocation of the completion handler of request id
ReplyOf(id, inv) ==
    CASE inv = "complete" -> Response(id, NIL, ResultValue)
      [] inv = "set_error_msg" -> Response(id, MpStr(kErrorMessage), NIL)
      [] inv = "set_error" -> Response(id, MpStr("Error during call"), NIL)

\* a completion handler that replies at every invocation
Invoke_Always(invoked, written, reply) == Append(written, reply)

\* the completion handler is invoked: the first invocation writes the reply,
\* the later ones are no-ops
Invoke(invoked, written, reply) ==
    IF invoked THEN written ELSE Append(written, reply)

\* the completion handler is destroyed: one error reply if it was never
\* invoked
Destroy(invoked, written, id) ==
    IF invoked THEN written
    ELSE Append(written, Response(id, MpStr("Call finished with no result"), NIL))

\* a miss that answers whatever the message is
MissReply_Always(req) == <<Response(req.id, MpStr("Unknown function"), NIL)>>

\* dispatch on miss: a request is answered with "Unknown function", a
\* notification is dropped
MissReply(req) ==
    IF req.kind = "request"
    THEN <<Response(req.id, MpStr("Unknown function"), NIL)>>
    ELSE <<>>

ServerInit ==
    /\ registry = {}
    /\ dispRet = NoRet
    /\ srvSt = [r \in Requests |-> "idle"]
    /\ srvReq = [r \in Requests |-> NoReq]
    /\ srvKind = [r \in Requests |-> "unset"]
    /\ srvInvoked = [r \in Requests |-> FALSE]
    /\ srvLog = [r \in Requests |-> <<>>]
    /\ srvReplies = [r \in Requests |-> <<>>]

\* add / add_async / add_coro: insert and return whether it was inserted
AddEntry(name, kind) ==
    /\ registry' = Emplace(registry, name, kind)
    /\ dispRet' = [op |-> "add", name |-> name, ret |-> ~has(registry, name)]
    /\ UNCHANGED <<srvSt, srvReq, srvKind, srvInvoked, srvLog, srvReplies>>
    /\ UNCHANGED <<framerVars, clientVars>>

add(name) == AddEntry(name, "sync")

add_async(name) == AddEntry(name, "async")

add_coro(name) == AddEntry(name, "coro")

\* remove(name) -> bool
remove(name) ==
    /\ registry' = EraseName(registry, name)
    /\ dispRet' = [op |-> "remove", name |-> name, ret |-> has(registry, name)]
    /\ UNCHANGED <<srvSt, srvReq, srvKind, srvInvoked, srvLog, srvReplies>>
    /\ UNCHANGED <<framerVars, clientVars>>

\* clear() -> usize
clear ==
    /\ registry' = {}
    /\ dispRet' = [op |-> "clear", name |-> "", ret |-> Cardinality(registry)]
    /\ UNCHANGED <<srvSt, srvReq, srvKind, srvInvoked, srvLog, srvReplies>>
    /\ UNCHANGED <<framerVars, clientVars>>

\* the session has read and decoded a request or a notification. Requests
\* are interchangeable, so r arrives after r - 1; the id of request r is r - 1
Receive(r, kind, method) ==
    /\ srvSt[r] = "idle"
    /\ IF r = 1 THEN TRUE ELSE srvSt[r - 1] # "idle"
    /\ srvSt' = [srvSt EXCEPT ![r] = "received"]
    /\ srvReq' = [srvReq EXCEPT ![r] = [kind |-> kind, method |-> method, id |-> r - 1]]
    /\ UNCHANGED <<registry, dispRet, srvKind, srvInvoked, srvLog, srvReplies>>
    /\ UNCHANGED <<framerVars, clientVars>>

\* dispatch: the method is looked up; on hit the handler is started (with a
\* fresh completion handler for a request), on miss the request is answered
\* with "Unknown function" and the notification dropped
Lookup(r) ==
    /\ srvSt[r] = "received"
    /\ IF has(registry, srvReq[r].method)
       THEN /\ \E e \in registry :
                  /\ e.name = srvReq[r].method
                  /\ srvKind' = [srvKind EXCEPT ![r] = e.kind]
            /\ srvSt' = [srvSt EXCEPT ![r] = "running"]
            /\ UNCHANGED srvReplies
       ELSE /\ srvKind' = [srvKind EXCEPT ![r] = "miss"]
            /\ srvSt' = [srvSt EXCEPT ![r] = "finished"]
            /\ srvReplies' = [srvReplies EXCEPT ![r] = @ \o MissReply(srvReq[r])]
    /\ UNCHANGED <<registry, dispRet, srvReq, srvInvoked, srvLog>>
    /\ UNCHANGED <<framerVars, clientVars>>

\* the handler of a request invokes its completion handler. The adapter of a
\* synchronous or coroutine handler completes once, with the result; an
\* asynchronous handler may invoke it any way, any number of times
HandlerInvoke(r, inv) ==
    /\ srvSt[r] = "running"
    /\ srvReq[r].kind = "request"
    /\ Len(srvLog[r]) < MaxInvocations
    /\ srvKind[r] # "async" => (inv = "complete" /\ srvLog[r] = <<>>)
    /\ srvLog' = [srvLog EXCEPT ![r] = Append(@, inv)]
    /\ srvReplies' = [srvReplies EXCEPT ![r] =
           Invoke(srvInvoked[r], @, ReplyOf(srvReq[r].id, inv))]
    /\ srvInvoked' = [srvInvoked EXCEPT ![r] = TRUE]
    /\ UNCHANGED <<registry, dispRet, srvSt, srvReq, srvKind>>
    /\ UNCHANGED <<framerVars, clientVars>>

\* the handler has returned and the completion handler of a request is
\* destroyed; an asynchronous handler may have dropped it uninvoked. For a
\* notification no completion handler was constructed
HandlerDone(r) ==
    /\ srvSt[r] = "running"
    /\ (srvReq[r].kind = "request" /\ srvKind[r] # "async") => srvInvoked[r]
    /\ srvSt' = [srvSt EXCEPT ![r] = "finished"]
    /\ srvReplies' = [srvReplies EXCEPT ![r] =
           IF srvReq[r].kind = "request"
           THEN Destroy(srvInvoked[r], @, srvReq[r].id)
           ELSE @]
    /\ UNCHANGED <<registry, dispRet, srvReq, srvKind, srvInvoked, srvLog>>
    /\ UNCHANGED <<framerVars, clientVars>>

ServerNext ==
    \/ \E name \in Names : add(name)
    \/ \E name \in Names : add_async(name)
    \/ \E name \in Names : add_coro(name)
    \/ \E name \in Names : remove(name)
    \/ clear
    \/ \E r \in Requests, kind \in {"request", "notification"}, method \in Names :
          Receive(r, kind, method)
    \/ \E r \in Requests : Lookup(r)
    \/ \E r \in Requests, inv \in Invocations : HandlerInvoke(r, inv)
    \/ \E r \in Requests : HandlerDone(r)

Init == ClientInit /\ FramerIdle /\ ServerInit

\* set_timeout(timeout)
set_timeout(d) ==
    /\ d # timeout_
    /\ timeout_' = d
    /\ UNCHANGED <<framerVars, serverVars, id_, pending_, pending_mutex_, reading_,
                   socketOpen, callPc, callId, callTimeout, timerSt,
                   timerEntry, writeSt, mchPc, mchArg, mchEntry, readerSt,
                   readerMsg, wire, served, replies, garbage, outcomes,
                   consumed, lost, readChains, notifyPc, notifyOutcomes>>

\* async_call, line 106: id = id_.fetch_add(1). Calls are interchangeable, so
\* call c starts after call c - 1 has started
CallFetchId(c) ==
    /\ callPc[c] = "idle"
    /\ IF c = 1 THEN TRUE ELSE callPc[c - 1] # "idle"
    /\ callId' = [callId EXCEPT ![c] = id_]
    /\ id_' = FetchAdd(id_)
    /\ callPc' = [callPc EXCEPT ![c] = "lock"]
    /\ UNCHANGED <<framerVars, serverVars, pending_, pending_mutex_, timeout_, reading_,
                   socketOpen, callTimeout, timerSt, timerEntry, writeSt,
                   mchPc, mchArg, mchEntry, readerSt, readerMsg, wire,
                   served, replies, garbage, outcomes, consumed, lost,
                   readChains, notifyPc, notifyOutcomes>>

\* async_call, line 116: std::unique_lock lock{pending_mutex_}
CallLock(c) ==
    /\ callPc[c] = "lock"
    /\ pending_mutex_ = Free
    /\ pending_mutex_' = <<"call", c>>
    /\ callPc' = [callPc EXCEPT ![c] = "emplace"]
    /\ UNCHANGED <<framerVars, serverVars, id_, pending_, timeout_, reading_, socketOpen,
                   callId, callTimeout, timerSt, timerEntry, writeSt, mchPc,
                   mchArg, mchEntry, readerSt, readerMsg, wire, served,
                   replies, garbage, outcomes, consumed, lost, readChains,
                   notifyPc, notifyOutcomes>>

\* async_call, lines 117-136: try_emplace, async_timeout(timer, id) on the
\* timer of the entry under id when timeout_ > 0, and the unlock at the end of
\* the block
CallEmplace(c) ==
    /\ callPc[c] = "emplace"
    /\ pending_mutex_ = <<"call", c>>
    /\ pending_' = TryEmplace(pending_, callId[c], c)
    /\ callTimeout' = [callTimeout EXCEPT ![c] = timeout_]
    /\ timerSt' = IF TimerWanted(timeout_)
                  THEN [k \in Calls |->
                          IF \E e \in Find(pending_', callId[c]) : e.timer = k
                          THEN Arm(timerSt[k]) ELSE timerSt[k]]
                  ELSE timerSt
    /\ pending_mutex_' = Free
    /\ callPc' = [callPc EXCEPT ![c] = "start_reading"]
    /\ UNCHANGED <<framerVars, serverVars, id_, timeout_, reading_, socketOpen, callId,
                   timerEntry, writeSt, mchPc, mchArg, mchEntry, readerSt,
                   readerMsg, wire, served, replies, garbage, outcomes,
                   consumed, lost, readChains, notifyPc, notifyOutcomes>>

\* async_call, line 138: maybe_start_reading(); the caller that finds the
\* flag clear issues async_read()
CallStartReading(c) ==
    /\ callPc[c] = "start_reading"
    /\ reading_' = TestAndSet(reading_)
    /\ readerSt' = IF ~reading_ THEN "waiting" ELSE readerSt
    /\ readChains' = IF ~reading_ THEN readChains + 1 ELSE readChains
    /\ callPc' = [callPc EXCEPT ![c] = "write"]
    /\ UNCHANGED <<framerVars, serverVars, id_, pending_, pending_mutex_, timeout_,
                   socketOpen, callId, callTimeout, timerSt, timerEntry,
                   writeSt, mchPc, mchArg, mchEntry, readerMsg, wire, served,
                   replies, garbage, outcomes, consumed, lost, notifyPc,
                   notifyOutcomes>>

\* async_call, lines 139-153: async_write is submitted
CallWrite(c) ==
    /\ callPc[c] = "write"
    /\ writeSt' = [writeSt EXCEPT ![c] = "pending"]
    /\ callPc' = [callPc EXCEPT ![c] = "done"]
    /\ UNCHANGED <<framerVars, serverVars, id_, pending_, pending_mutex_, timeout_,
                   reading_, socketOpen, callId, callTimeout, timerSt,
                   timerEntry, mchPc, mchArg, mchEntry, readerSt, readerMsg,
                   wire, served, replies, garbage, outcomes, consumed, lost,
                   readChains, notifyPc, notifyOutcomes>>

\* the write completes without error (lines 149-152): the request has
\* reached the server
WriteOk(c) ==
    /\ writeSt[c] = "pending"
    /\ socketOpen
    /\ writeSt' = [writeSt EXCEPT ![c] = "ok"]
    /\ served' = served \cup {c}
    /\ UNCHANGED <<framerVars, serverVars, id_, pending_, pending_mutex_, timeout_,
                   reading_, socketOpen, callPc, callId, callTimeout,
                   timerSt, timerEntry, mchPc, mchArg, mchEntry, readerSt,
                   readerMsg, wire, replies, garbage, outcomes, consumed,
                   lost, readChains, notifyPc, notifyOutcomes>>

\* the write completes with an error (lines 143-148): the handler calls
\* maybe_call_handler(id, ec.message(), ec)
WriteFail(c) ==
    /\ writeSt[c] = "pending"
    /\ writeSt' = [writeSt EXCEPT ![c] = "failed"]
    /\ LET ec == IF socketOpen THEN "broken_pipe" ELSE "operation_aborted"
       IN mchArg' = [mchArg EXCEPT ![c] =
              [id |-> callId[c], result |-> Message(ec), ec |-> ec]]
    /\ mchPc' = [mchPc EXCEPT ![c] = "lock"]
    /\ UNCHANGED <<framerVars, serverVars, id_, pending_, pending_mutex_, timeout_,
                   reading_, socketOpen, callPc, callId, callTimeout,
                   timerSt, timerEntry, mchEntry, readerSt, readerMsg, wire,
                   served, replies, garbage, outcomes, consumed, lost,
                   readChains, notifyPc, notifyOutcomes>>

\* maybe_call_handler, line 256: std::unique_lock lock{pending_mutex_}
MchLock(t) ==
    /\ mchPc[t] = "lock"
    /\ pending_mutex_ = Free
    /\ pending_mutex_' = <<"mch", t>>
    /\ mchPc' = [mchPc EXCEPT ![t] = "find"]
    /\ UNCHANGED <<framerVars, serverVars, id_, pending_, timeout_, reading_, socketOpen,
                   callPc, callId, callTimeout, timerSt, timerEntry, writeSt,
                   mchArg, mchEntry, readerSt, readerMsg, wire, served,
                   replies, garbage, outcomes, consumed, lost, readChains,
                   notifyPc, notifyOutcomes>>

\* maybe_call_handler, lines 257-264: find; either nothing is found and the
\* function returns, its lock released with it (the read handler then goes
\* on to async_read()), or the entry is moved out and erased and the mutex
\* unlocked by lock.unlock()
MchFind(t) ==
    /\ mchPc[t] = "find"
    /\ pending_mutex_ = <<"mch", t>>
    /\ LET found == Find(pending_, ToKey(mchArg[t].id))
       IN IF found = {}
          THEN /\ pending_mutex_' = Free
               /\ lost' = lost \cup {<<MchPath(t), ToKey(mchArg[t].id)>>}
               /\ mchPc' = [mchPc EXCEPT ![t] = "idle"]
               /\ readerSt' = IF t = Reader THEN "waiting" ELSE readerSt
               /\ UNCHANGED <<pending_, mchEntry, consumed>>
          ELSE \E e \in found :
               /\ pending_' = Erase(pending_, e)
               /\ mchEntry' = [mchEntry EXCEPT ![t] = e]
               /\ consumed' = [consumed EXCEPT ![e.handler] = Append(@, MchPath(t))]
               /\ pending_mutex_' = Unlock(pending_mutex_)
               /\ mchPc' = [mchPc EXCEPT ![t] = "invoke"]
               /\ UNCHANGED <<lost, readerSt>>
    /\ UNCHANGED <<framerVars, serverVars, id_, timeout_, reading_, socketOpen, callPc,
                   callId, callTimeout, timerSt, timerEntry, writeSt, mchArg,
                   readerMsg, wire, served, replies, garbage, outcomes,
                   readChains, notifyPc, notifyOutcomes>>

\* maybe_call_handler, lines 266-267: timer.cancel(); handler(ec, result);
\* the read handler then goes on to async_read()
MchInvoke(t) ==
    /\ mchPc[t] = "invoke"
    /\ timerSt' = [timerSt EXCEPT ![mchEntry[t].timer] = Cancel(@)]
    /\ outcomes' = [outcomes EXCEPT ![mchEntry[t].handler] =
           Append(@, HandlerArgs(mchArg[t].ec, mchArg[t].result))]
    /\ mchPc' = [mchPc EXCEPT ![t] = "idle"]
    /\ readerSt' = IF t = Reader THEN "waiting" ELSE readerSt
    /\ UNCHANGED <<framerVars, serverVars, id_, pending_, pending_mutex_, timeout_,
                   reading_, socketOpen, callPc, callId, callTimeout,
                   timerEntry, writeSt, mchArg, mchEntry, readerMsg, wire,
                   served, replies, garbage, consumed, lost, readChains,
                   notifyPc, notifyOutcomes>>

\* the deadline of an armed timer passes: its handler is queued with no error
TimerExpire(c) ==
    /\ timerSt[c] = "armed"
    /\ timerSt' = [timerSt EXCEPT ![c] = "expired"]
    /\ UNCHANGED <<framerVars, serverVars, id_, pending_, pending_mutex_, timeout_,
                   reading_, socketOpen, callPc, callId, callTimeout,
                   timerEntry, writeSt, mchPc, mchArg, mchEntry, readerSt,
                   readerMsg, wire, served, replies, garbage, outcomes,
                   consumed, lost, readChains, notifyPc, notifyOutcomes>>

\* async_timeout, lines 194-196: the handler of a cancelled wait returns
TimerAborted(c) ==
    /\ timerSt[c] = "aborted"
    /\ timerSt' = [timerSt EXCEPT ![c] = "done"]
    /\ UNCHANGED <<framerVars, serverVars, id_, pending_, pending_mutex_, timeout_,
                   reading_, socketOpen, callPc, callId, callTimeout,
                   timerEntry, writeSt, mchPc, mchArg, mchEntry, readerSt,
                   readerMsg, wire, served, replies, garbage, outcomes,
                   consumed, lost, readChains, notifyPc, notifyOutcomes>>

\* async_timeout, line 200: std::unique_lock lock{pending_mutex_}
TimerLock(c) ==
    /\ timerSt[c] = "expired"
    /\ pending_mutex_ = Free
    /\ pending_mutex_' = <<"timer", c>>
    /\ timerSt' = [timerSt EXCEPT ![c] = "find"]
    /\ UNCHANGED <<framerVars, serverVars, id_, pending_, timeout_, reading_, socketOpen,
                   callPc, callId, callTimeout, timerEntry, writeSt, mchPc,
                   mchArg, mchEntry, readerSt, readerMsg, wire, served,
                   replies, garbage, outcomes, consumed, lost, readChains,
                   notifyPc, notifyOutcomes>>

\* async_timeout, lines 201-208: find(id); either nothing is found and the
\* handler returns, its lock released with it, or the entry is moved out and
\* erased and the mutex unlocked by lock.unlock()
TimerFind(c) ==
    /\ timerSt[c] = "find"
    /\ pending_mutex_ = <<"timer", c>>
    /\ LET found == Find(pending_, callId[c])
       IN IF found = {}
          THEN /\ pending_mutex_' = Free
               /\ lost' = lost \cup {<<"timer", callId[c]>>}
               /\ timerSt' = [timerSt EXCEPT ![c] = "done"]
               /\ UNCHANGED <<pending_, timerEntry, consumed>>
          ELSE \E e \in found :
               /\ pending_' = Erase(pending_, e)
               /\ timerEntry' = [timerEntry EXCEPT ![c] = e]
               /\ consumed' = [consumed EXCEPT ![e.handler] = Append(@, "timer")]
               /\ pending_mutex_' = Unlock(pending_mutex_)
               /\ timerSt' = [timerSt EXCEPT ![c] = "invoke"]
               /\ UNCHANGED lost
    /\ UNCHANGED <<framerVars, serverVars, id_, timeout_, reading_, socketOpen, callPc,
                   callId, callTimeout, writeSt, mchPc, mchArg, mchEntry,
                   readerSt, readerMsg, wire, served, replies, garbage,
                   outcomes, readChains, notifyPc, notifyOutcomes>>

\* async_timeout, lines 210-213: handler(error::timeout, ec.message())
TimerInvoke(c) ==
    /\ timerSt[c] = "invoke"
    /\ outcomes' = [outcomes EXCEPT ![timerEntry[c].handler] =
           Append(@, HandlerArgs("timeout", Message("timeout")))]
    /\ timerSt' = [timerSt EXCEPT ![c] = "done"]
    /\ UNCHANGED <<framerVars, serverVars, id_, pending_, pending_mutex_, timeout_,
                   reading_, socketOpen, callPc, callId, callTimeout,
                   timerEntry, writeSt, mchPc, mchArg, mchEntry, readerSt,
                   readerMsg, wire, served, replies, garbage, consumed, lost,
                   readChains, notifyPc, notifyOutcomes>>

\* async_read, lines 171-183: a read completes with one message, which is
\* handed to dispatch
Read ==
    /\ readerSt = "waiting"
    /\ socketOpen
    /\ \E m \in wire :
          /\ wire' = wire \ {m}
          /\ readerMsg' = m
    /\ readerSt' = "dispatch"
    /\ UNCHANGED <<framerVars, serverVars, id_, pending_, pending_mutex_, timeout_,
                   reading_, socketOpen, callPc, callId, callTimeout,
                   timerSt, timerEntry, writeSt, mchPc, mchArg, mchEntry,
                   served, replies, garbage, outcomes, consumed, lost,
                   readChains, notifyPc, notifyOutcomes>>

AfterReadError_Clear(flag) == FALSE

\* async_read, lines 172-174: the error branch of the read handler only
\* logs; reading_ is left as it is
AfterReadError(flag) == flag

\* async_read, lines 172-174: the read completes with an error and the chain
\* stops
ReadFail ==
    /\ readerSt = "waiting"
    /\ readerSt' = "stopped"
    /\ reading_' = AfterReadError(reading_)
    /\ UNCHANGED <<framerVars, serverVars, id_, pending_, pending_mutex_, timeout_,
                   socketOpen, callPc, callId, callTimeout,
                   timerSt, timerEntry, writeSt, mchPc, mchArg, mchEntry,
                   readerMsg, wire, served, replies, garbage, outcomes,
                   consumed, lost, readChains, notifyPc, notifyOutcomes>>

\* dispatch, lines 227-246: as<int>() of the tag (inside verify_reponse) or of
\* the id may throw out of the handler; a message that fails verify_reponse
\* closes the connection; otherwise maybe_call_handler is entered with the
\* error or the result
Dispatch ==
    /\ readerSt = "dispatch"
    /\ readerMsg' = NoMsg
    /\ IF VerifyThrows(readerMsg)
       THEN /\ readerSt' = "thrown"
            /\ UNCHANGED <<socketOpen, mchArg, mchPc>>
       ELSE IF ~verify_reponse(readerMsg)
       THEN /\ socketOpen' = FALSE
            /\ readerSt' = "waiting"
            /\ UNCHANGED <<mchArg, mchPc>>
       ELSE IF AsIntThrows(readerMsg.v[2])
       THEN /\ readerSt' = "thrown"
            /\ UNCHANGED <<socketOpen, mchArg, mchPc>>
       ELSE /\ mchArg' = [mchArg EXCEPT ![Reader] =
                   DispatchArgs(readerMsg.v[2].v, readerMsg.v[3], readerMsg.v[4])]
            /\ mchPc' = [mchPc EXCEPT ![Reader] = "lock"]
            /\ readerSt' = "routing"
            /\ UNCHANGED socketOpen
    /\ UNCHANGED <<framerVars, serverVars, id_, pending_, pending_mutex_, timeout_,
                   reading_, callPc, callId, callTimeout, timerSt,
                   timerEntry, writeSt, mchEntry, wire, served, replies,
                   garbage, outcomes, consumed, lost, readChains, notifyPc,
                   notifyOutcomes>>

\* the server writes its one reply to the request of call c: the result of
\* the handler, or an error
ServerReply(c, err) ==
    /\ c \in served
    /\ replies[c] = NoMsg
    /\ socketOpen
    /\ LET m == Response(callId[c], err,
                         IF err = NIL THEN MpInt(Double(ArgOf(c))) ELSE NIL)
       IN /\ replies' = [replies EXCEPT ![c] = m]
          /\ wire' = wire \cup {m}
    /\ UNCHANGED <<framerVars, serverVars, id_, pending_, pending_mutex_, timeout_,
                   reading_, socketOpen, callPc, callId, callTimeout,
                   timerSt, timerEntry, writeSt, mchPc, mchArg, mchEntry,
                   readerSt, readerMsg, served, garbage, outcomes, consumed,
                   lost, readChains, notifyPc, notifyOutcomes>>

\* the peer sends a message that is not a response; the first one read
\* closes the connection, so one is enough
PeerGarbage(m) ==
    /\ ~garbage
    /\ socketOpen
    /\ garbage' = TRUE
    /\ wire' = wire \cup {m}
    /\ UNCHANGED <<framerVars, serverVars, id_, pending_, pending_mutex_, timeout_,
                   reading_, socketOpen, callPc, callId, callTimeout,
                   timerSt, timerEntry, writeSt, mchPc, mchArg, mchEntry,
                   readerSt, readerMsg, served, replies, outcomes, consumed,
                   lost, readChains, notifyPc, notifyOutcomes>>

\* async_notify, lines 71-77: the notification is packed (no id, no entry,
\* no timer) and maybe_start_reading() is called. Notifications are
\* interchangeable, so n starts after n - 1 has started
NotifyStartReading(n) ==
    /\ notifyPc[n] = "idle"
    /\ IF n = 1 THEN TRUE ELSE notifyPc[n - 1] # "idle"
    /\ reading_' = TestAndSet(reading_)
    /\ readerSt' = IF ~reading_ THEN "waiting" ELSE readerSt
    /\ readChains' = IF ~reading_ THEN readChains + 1 ELSE readChains
    /\ notifyPc' = [notifyPc EXCEPT ![n] = "write"]
    /\ UNCHANGED <<framerVars, serverVars, id_, pending_, pending_mutex_, timeout_,
                   socketOpen, callPc, callId, callTimeout, timerSt,
                   timerEntry, writeSt, mchPc, mchArg, mchEntry, readerMsg,
                   wire, served, replies, garbage, outcomes, consumed, lost,
                   notifyOutcomes>>

\* async_notify, lines 78-91: async_write is submitted
NotifyWrite(n) ==
    /\ notifyPc[n] = "write"
    /\ notifyPc' = [notifyPc EXCEPT ![n] = "pending"]
    /\ UNCHANGED <<framerVars, serverVars, id_, pending_, pending_mutex_, timeout_,
                   reading_, socketOpen, callPc, callId, callTimeout,
                   timerSt, timerEntry, writeSt, mchPc, mchArg, mchEntry,
                   readerSt, readerMsg, wire, served, replies, garbage,
                   outcomes, consumed, lost, readChains, notifyOutcomes>>

\* async_notify, lines 81-90: the write completes, with or without an error,
\* and the handler is called with its error code: handler(ec)
NotifyWriteDone(n) ==
    /\ notifyPc[n] = "pending"
    /\ \E ec \in IF socketOpen THEN {"success", "broken_pipe"}
                  ELSE {"operation_aborted"} :
          notifyOutcomes' = [notifyOutcomes EXCEPT ![n] = NotifyHandler(@, ec)]
    /\ notifyPc' = [notifyPc EXCEPT ![n] = "done"]
    /\ UNCHANGED <<framerVars, serverVars, id_, pending_, pending_mutex_, timeout_,
                   reading_, socketOpen, callPc, callId, callTimeout,
                   timerSt, timerEntry, writeSt, mchPc, mchArg, mchEntry,
                   readerSt, readerMsg, wire, served, replies, garbage,
                   outcomes, consumed, lost, readChains>>

Next ==
    \/ \E d \in {0, 1} : set_timeout(d)
    \/ \E c \in Calls : CallFetchId(c)
    \/ \E c \in Calls : CallLock(c)
    \/ \E c \in Calls : CallEmplace(c)
    \/ \E c \in Calls : CallStartReading(c)
    \/ \E c \in Calls : CallWrite(c)
    \/ \E c \in Calls : WriteOk(c)
    \/ \E c \in Calls : WriteFail(c)
    \/ \E t \in MchThreads : MchLock(t)
    \/ \E t \in MchThreads : MchFind(t)
    \/ \E t \in MchThreads : MchInvoke(t)
    \/ \E c \in Calls : TimerExpire(c)
    \/ \E c \in Calls : TimerAborted(c)
    \/ \E c \in Calls : TimerLock(c)
    \/ \E c \in Calls : TimerFind(c)
    \/ \E c \in Calls : TimerInvoke(c)
    \/ Read
    \/ ReadFail
    \/ Dispatch
    \/ \E c \in Calls, err \in {NIL} \cup CallErrors : ServerReply(c, err)
    \/ \E m \in GarbageMessages : PeerGarbage(m)

Spec == Init /\ [][Next]_vars

\* the steps the executor and the calling threads take by themselves once
\* they are enabled. Starting a call, set_timeout, the server's reply, a
\* malformed message and the loss of the connection are up to the user and
\* the peer.
ClientStep ==
    \/ \E c \in Calls :
          \/ CallLock(c) \/ CallEmplace(c) \/ CallStartReading(c) \/ CallWrite(c)
          \/ WriteOk(c) \/ WriteFail(c)
          \/ TimerExpire(c) \/ TimerAborted(c) \/ TimerLock(c)
          \/ TimerFind(c) \/ TimerInvoke(c)
    \/ \E t \in MchThreads : MchLock(t) \/ MchFind(t) \/ MchInvoke(t)
    \/ Read
    \/ Dispatch

FairSpec == Spec /\ WF_vars(ClientStep)

\* no async_call and no handler is part-way through
Quiet ==
    /\ pending_mutex_ = Free
    /\ \A c \in Calls :
          /\ callPc[c] \in {"idle", "done"}
          /\ writeSt[c] # "pending"
          /\ timerSt[c] \in {"none", "armed", "done"}
    /\ \A t \in MchThreads : mchPc[t] = "idle"
    /\ readerSt \in {"waiting", "stopped"}

\* 2^32 - 1 further async_call are issued (line 106 each) and every one of
\* them is completed while nothing else is in progress: the table is as it
\* was and id_ has advanced by 2^32 - 1. They need a started read chain and
\* a way to complete: a timer, a failing write, or a reader that takes
\* their responses. One passage below 0 is enough.
CallsElapse ==
    /\ id_ >= 0
    /\ Quiet
    /\ reading_
    /\ timeout_ > 0 \/ ~socketOpen \/ readerSt = "waiting"
    /\ id_' = IF id_ = 0 THEN -1 ELSE id_ - 1
    /\ UNCHANGED <<framerVars, serverVars, pending_, pending_mutex_, timeout_, reading_,
                   socketOpen, callPc, callId, callTimeout, timerSt,
                   timerEntry, writeSt, mchPc, mchArg, mchEntry, readerSt,
                   readerMsg, wire, served, replies, garbage, outcomes,
                   consumed, lost, readChains, notifyPc, notifyOutcomes>>

WrapNext == Next \/ CallsElapse

\* the client over more than one period of the id counter
WrapSpec == Init /\ [][WrapNext]_vars

NotifyNext ==
    \/ Next
    \/ \E n \in Notifies : NotifyStartReading(n)
    \/ \E n \in Notifies : NotifyWrite(n)
    \/ \E n \in Notifies : NotifyWriteDone(n)

\* the client with notifications beside the calls
NotifySpec == Init /\ [][NotifyNext]_vars

ServerSpec == Init /\ [][ServerNext]_vars

(***************************************************************************)
(* Client properties                                                       *)
(***************************************************************************)
\* call c has an entry in the call table
InTable(c) == \E e \in pending_ : e.handler = c

\* async_call of c has left the block that registers the entry
Registered(c) == callPc[c] \in {"start_reading", "write", "done"}

\* the id of c is allocated and its completion has not run
InFlight(c) == callPc[c] # "idle" /\ outcomes[c] = <<>>

\* the path that delivers an error code
PathOf(ec) ==
    IF ec = "timeout" THEN "timer"
    ELSE IF ec \in {"success", "call_error"} THEN "response"
    ELSE "write"

\* what the completion must receive for the response m
Expected(m) ==
    IF m.v[3].type = "NIL"
    THEN [ec |-> "success", value |-> m.v[4]]
    ELSE [ec |-> "call_error", value |-> m.v[3]]

\* thread t of maybe_call_handler is between the erase of c's entry and the
\* call of c's completion
AboutToInvoke(t, c) == mchPc[t] = "invoke" /\ mchEntry[t].handler = c

\* C2: each call-table entry is consumed by exactly one of {timer, response,
\* write failure}; only the consumer invokes the completion, with its own
\* outcome, so a response and a timeout are never both delivered.
C2_OneConsumer ==
    \A c \in Calls :
        /\ Len(consumed[c]) <= 1
        /\ Len(outcomes[c]) <= Len(consumed[c])
        /\ \A i \in 1..Len(outcomes[c]) :
               PathOf(outcomes[c][i].ec) = consumed[c][i]

\* C2 witness: the response won the race and the timer, already fired, found
\* no entry
C2_Witness ==
    \E c \in Calls :
        /\ consumed[c] = <<"response">>
        /\ Len(outcomes[c]) = 1
        /\ <<"timer", callId[c]>> \in lost

\* C3 as stated: every issued call is eventually completed, and never twice.
C3_ExactlyOnce ==
    /\ [](\A c \in Calls : Len(outcomes[c]) <= 1)
    /\ \A c \in Calls : (callPc[c] # "idle") ~> (Len(outcomes[c]) = 1)

\* call c is sure of an outcome: it was issued with a timeout > 0, or its
\* write has failed, or its response has been read
SureOfOutcome(c) ==
    \/ Registered(c) /\ callTimeout[c] > 0
    \/ writeSt[c] = "failed"
    \/ replies[c] # NoMsg /\ readerMsg = replies[c]

\* C3 amended: a completion is never invoked twice; it is eventually invoked
\* when the call was issued with a timeout > 0, when its write fails, and
\* when its response is read.
C3_AtMostOnceAndTimed ==
    /\ [](\A c \in Calls : Len(outcomes[c]) <= 1)
    /\ \A c \in Calls : SureOfOutcome(c) ~> (Len(outcomes[c]) = 1)

\* C3 witness: a call issued with a timeout has been completed once
C3_Witness ==
    \E c \in Calls :
        Registered(c) /\ callTimeout[c] > 0 /\ Len(outcomes[c]) = 1

\* C4: a response with id r erases the entry under r, cancels its timer and
\* hands the completion of that call, and of no other, (success, result) or
\* (call_error, error).
C4_ResponseRouting ==
    \A c \in Calls :
        /\ \A i \in 1..Len(outcomes[c]) :
               outcomes[c][i].ec \in {"success", "call_error"} =>
                   /\ replies[c] # NoMsg
                   /\ outcomes[c][i] = Expected(replies[c])
        /\ consumed[c] = <<"response">> =>
               /\ ~InTable(c)
               /\ ~AboutToInvoke(Reader, c) =>
                      /\ outcomes[c] = <<Expected(replies[c])>>
                      /\ timerSt[c] # "armed"

\* C4 witness: two calls were in flight and both got their own response,
\* one a result and one an error
C4_Witness ==
    \E c1, c2 \in Calls :
        /\ outcomes[c1] = <<[ec |-> "success", value |-> MpInt(Double(ArgOf(c1)))]>>
        /\ Len(outcomes[c2]) = 1
        /\ outcomes[c2][1].ec = "call_error"

\* C8: the table holds at most one entry per id, in-flight calls have
\* distinct ids and each registered one that nothing consumed has its own
\* entry; a completed call has no entry. It holds as long as fewer than 2^32
\* calls are issued while a call is in flight, and not beyond (WrapSpec).
C8_UniqueIds ==
    /\ \A e1, e2 \in pending_ : e1.id = e2.id => e1 = e2
    /\ \A c1, c2 \in Calls :
          (c1 # c2 /\ InFlight(c1) /\ InFlight(c2)) => callId[c1] # callId[c2]
    /\ \A c \in Calls :
          /\ (Registered(c) /\ consumed[c] = <<>>) =>
                 [id |-> callId[c], handler |-> c, timer |-> c] \in pending_
          /\ outcomes[c] # <<>> => Find(pending_, callId[c]) = {}

\* C9: a timer that fires while the entry is still in the table removes it
\* and the completion gets (timeout, a string); a timer finds no entry only
\* when another path has consumed it.
C9_TimeoutDelivery ==
    \A c \in Calls :
        /\ consumed[c] = <<"timer">> =>
               /\ callTimeout[c] > 0
               /\ ~InTable(c)
               /\ timerSt[c] = "done" =>
                      /\ Len(outcomes[c]) = 1
                      /\ outcomes[c][1].ec = "timeout"
                      /\ outcomes[c][1].value.type = "STR"
        /\ (Registered(c) /\ <<"timer", callId[c]>> \in lost) =>
               consumed[c] \in {<<"response">>, <<"write">>}

\* C9 witness: a call has timed out
C9_Witness ==
    \E c \in Calls :
        /\ consumed[c] = <<"timer">>
        /\ timerSt[c] = "done"
        /\ c \in served

\* C10: a call issued with timeout 0 has no timer, is never completed with
\* timeout, and its response, whenever it arrives, finds the entry and
\* completes it.
C10_NoTimerWhenZero ==
    \A c \in Calls :
        (Registered(c) /\ callTimeout[c] = 0) =>
            /\ timerSt[c] = "none"
            /\ \A i \in 1..Len(outcomes[c]) : outcomes[c][i].ec # "timeout"
            /\ <<"response", callId[c]>> \notin lost
            /\ (consumed[c] = <<"response">> /\ ~AboutToInvoke(Reader, c)) =>
                   outcomes[c] = <<Expected(replies[c])>>

\* C10 witness: a call with timeout 0 got its response after a call issued
\* later had already timed out
C10_Witness ==
    \E c, d \in Calls :
        /\ callTimeout[c] = 0
        /\ callId[c] < callId[d]
        /\ consumed[d] = <<"timer">>
        /\ Len(outcomes[d]) = 1
        /\ consumed[c] = <<"response">>
        /\ outcomes[c] = <<Expected(replies[c])>>

\* the error codes a failed async_write completes with
WriteErrors == {"broken_pipe", "operation_aborted"}

\* some thread has erased the entry of c and not yet called its completion
BeingCompleted(c) ==
    \/ \E t \in MchThreads : AboutToInvoke(t, c)
    \/ \E k \in Calls : timerSt[k] = "invoke" /\ timerEntry[k].handler = c

\* C11: a failed write looks up the id of its own request; the entry it
\* finds is out of the table before the completion runs, the completion
\* gets the error code of the write and its message as a string, and the
\* lookup of a write handler removes no entry under another id.
C11_WriteFailure ==
    /\ [](\A c \in Calls :
            /\ mchPc[c] # "idle" => mchArg[c].id = callId[c]
            /\ mchPc[c] = "invoke" =>
                   /\ mchEntry[c].id = callId[c]
                   /\ mchEntry[c] \notin pending_
            /\ consumed[c] = <<"write">> =>
                   /\ ~InTable(c)
                   /\ ~BeingCompleted(c) =>
                          /\ Len(outcomes[c]) = 1
                          /\ outcomes[c][1].ec \in WriteErrors
                          /\ outcomes[c][1].value = Message(outcomes[c][1].ec)
                          /\ outcomes[c][1].value.type = "STR")
    /\ [][\A c \in Calls :
            (mchPc[c] = "find" /\ mchPc'[c] # "find") =>
                /\ pending_' \subseteq pending_
                /\ \A e \in pending_ \ pending_' : e.id = callId[c]]_vars

\* C11 witness: the write of one call has failed and its completion has run
\* with the write error, while the entry of another call is in the table
C11_Witness ==
    \E c, d \in Calls :
        /\ c # d
        /\ consumed[c] = <<"write">>
        /\ Len(outcomes[c]) = 1
        /\ outcomes[c][1].ec \in WriteErrors
        /\ InTable(d)

\* the message being dispatched is a well-formed response
WellFormed(m) == verify_reponse(m) /\ m.v[2].type = "INT"

\* C12: a well-formed response whose id has no entry is dropped silently:
\* its dispatch ends with the reader back at its read, and it invokes no
\* completion, leaves the table as it is and does not close the socket.
C12_LostIdsDropped ==
    /\ [][(/\ readerSt = "dispatch"
           /\ readerSt' # "dispatch"
           /\ WellFormed(readerMsg)
           /\ Find(pending_, readerMsg.v[2].v) = {}) =>
              (readerSt' = "routing" /\ socketOpen' = socketOpen)]_vars
    /\ [][(/\ mchPc[Reader] = "find"
           /\ mchPc'[Reader] # "find"
           /\ Find(pending_, ToKey(mchArg[Reader].id)) = {}) =>
              /\ pending_' = pending_
              /\ outcomes' = outcomes
              /\ socketOpen' = socketOpen
              /\ mchPc'[Reader] = "idle"
              /\ readerSt' = "waiting"]_vars

\* C13: a timer handler touches only the entry under its own id and only
\* that entry's completion, which gets the timeout; the other entries, the
\* other timers, the earlier outcomes, the socket and the read chain are as
\* they were.
C13_TimeoutIsLocal ==
    /\ [](\A k \in Calls :
            timerSt[k] = "invoke" =>
                timerEntry[k].id = callId[k] /\ timerEntry[k] \notin pending_)
    /\ [][\A k \in Calls :
            (timerSt[k] \in {"find", "invoke"} /\ timerSt'[k] # timerSt[k]) =>
                /\ pending_' \subseteq pending_
                /\ \A e \in pending_ \ pending_' :
                       timerSt[k] = "find" /\ e.id = callId[k]
                /\ \A j \in Calls \ {k} : timerSt'[j] = timerSt[j]
                /\ \A c \in Calls :
                       IF timerSt[k] = "invoke" /\ c = timerEntry[k].handler
                       THEN /\ Len(outcomes'[c]) = Len(outcomes[c]) + 1
                            /\ SubSeq(outcomes'[c], 1, Len(outcomes[c])) = outcomes[c]
                            /\ outcomes'[c][Len(outcomes'[c])].ec = "timeout"
                       ELSE outcomes'[c] = outcomes[c]
                /\ socketOpen' = socketOpen
                /\ <<reading_, readerSt, readerMsg, wire>>' =
                       <<reading_, readerSt, readerMsg, wire>>]_vars

\* C13 witness: one call has been completed with timeout while the entry of
\* another is in the table with its timer running and its response on the way
C13_Witness ==
    \E c, d \in Calls :
        /\ c # d
        /\ Len(outcomes[c]) = 1
        /\ outcomes[c][1].ec = "timeout"
        /\ InTable(d)
        /\ timerSt[d] = "armed"
        /\ replies[d] \in wire

\* C15: a response that carries an error and is delivered as a call error
\* leaves the connection as it is: its dispatch routes it without closing
\* the socket, its delivery hands call_error and the error object to the
\* handler of the entry and returns the reader to its read, and the socket
\* is never closed unless the peer has sent a message that is no response.
C15_CallErrorKeepsConnection ==
    /\ [](~socketOpen => garbage)
    /\ [][(/\ readerSt = "dispatch"
           /\ readerSt' # "dispatch"
           /\ WellFormed(readerMsg)
           /\ ~AsIntThrows(readerMsg.v[2])
           /\ readerMsg.v[3] # NIL) =>
              /\ socketOpen' = socketOpen
              /\ readerSt' = "routing"
              /\ mchArg'[Reader].ec = "call_error"
              /\ mchArg'[Reader].result = readerMsg.v[3]]_vars
    /\ [][(/\ mchPc[Reader] = "invoke"
           /\ mchPc'[Reader] # "invoke"
           /\ mchArg[Reader].ec = "call_error") =>
              /\ socketOpen' = socketOpen
              /\ readerSt' = "waiting"
              /\ outcomes'[mchEntry[Reader].handler] =
                     Append(outcomes[mchEntry[Reader].handler],
                            HandlerArgs("call_error", mchArg[Reader].result))]_vars

\* C15 witness: the first call was completed with a call error, and the
\* response of the second, read after that, is being delivered as a success
C15_Witness ==
    \E c, d \in Calls :
        /\ c < d
        /\ Len(outcomes[c]) = 1
        /\ outcomes[c][1].ec = "call_error"
        /\ outcomes[c][1].value \in CallErrors
        /\ socketOpen
        /\ mchPc[Reader] = "invoke"
        /\ mchEntry[Reader].handler = d
        /\ mchArg[Reader].ec = "success"

\* the message is a 4-element array tagged as a response
TaggedResponse(m) ==
    /\ m.type = "ARRAY"
    /\ Len(m.v) = 4
    /\ m.v[1] = MpInt(RESPONSE)

\* C16: the dispatch of a message that is not a 4-element array tagged as a
\* response closes the connection and invokes no completion: it enters no
\* maybe_call_handler, and the outcomes and the table are as they were.
C16_ProtocolErrorsClose ==
    [][(/\ readerSt = "dispatch"
        /\ readerSt' # "dispatch"
        /\ ~TaggedResponse(readerMsg)) =>
           /\ socketOpen' = FALSE
           /\ mchPc' = mchPc
           /\ outcomes' = outcomes
           /\ pending_' = pending_]_vars

\* C14: the handler of a notification has been called once when its write
\* has completed and not before, with the error code of the write; no step
\* of async_notify touches the id counter, the call table, a timer or the
\* outcome of a call, and nothing but its write calls its handler.
C14_NotifyOnlyWrites ==
    /\ [](\A n \in Notifies :
            /\ Len(notifyOutcomes[n]) = IF notifyPc[n] = "done" THEN 1 ELSE 0
            /\ \A i \in 1..Len(notifyOutcomes[n]) :
                   notifyOutcomes[n][i] \in {"success"} \cup WriteErrors)
    /\ [][notifyPc' # notifyPc =>
             UNCHANGED <<id_, pending_, pending_mutex_, timerSt, callId,
                         outcomes, consumed, lost, wire, mchPc>>]_vars
    /\ [][notifyOutcomes' # notifyOutcomes => notifyPc' # notifyPc]_vars

\* C14 witness: a notification was written and its handler told so, between
\* two calls that got the ids 0 and 1, one of them still in the table
C14_Witness ==
    /\ notifyOutcomes[1] = <<"success">>
    /\ id_ = MaxCalls
    /\ \A c \in Calls : callId[c] = c - 1
    /\ \E c \in Calls : InTable(c)

\* C17: a name is registered at most once; add* returns false iff the name
\* was present, whatever the kind of its handler, and then leaves the
\* registry as it was, otherwise it adds the name alone; remove(name) leaves
\* the name absent and the rest untouched, so that a second remove changes
\* nothing; has and known agree with the entries; clear returns the number
\* of entries it found and leaves none.
C17_DispatcherUniqueness ==
    /\ [](/\ \A e, f \in registry : e.name = f.name => e = f
          /\ Cardinality(known(registry)) = Cardinality(registry)
          /\ \A name \in Names :
                 has(registry, name) <=> \E k \in Kinds :
                     [name |-> name, kind |-> k] \in registry)
    /\ [][(dispRet'.op = "add" /\ <<registry, dispRet>>' # <<registry, dispRet>>) =>
             /\ dispRet'.ret = ~(dispRet'.name \in known(registry))
             /\ ~dispRet'.ret => registry' = registry
             /\ dispRet'.ret =>
                    /\ registry \subseteq registry'
                    /\ known(registry') = known(registry) \cup {dispRet'.name}]_vars
    /\ [][(dispRet'.op = "remove" /\ <<registry, dispRet>>' # <<registry, dispRet>>) =>
             /\ dispRet'.ret = (dispRet'.name \in known(registry))
             /\ registry' = {e \in registry : e.name # dispRet'.name}
             /\ EraseName(registry', dispRet'.name) = registry']_vars
    /\ [][(dispRet'.op = "clear" /\ <<registry, dispRet>>' # <<registry, dispRet>>) =>
             /\ dispRet'.ret = Cardinality(registry)
             /\ registry' = {}]_vars
    /\ [][registry' # registry => dispRet'.op \in {"add", "remove", "clear"}]_vars

\* C17 witness: an add of a name that another kind of handler holds has
\* returned false, with both names registered
C17_Witness ==
    /\ dispRet = [op |-> "add", name |-> "f001", ret |-> FALSE]
    /\ registry = {[name |-> "f001", kind |-> "async"],
                   [name |-> "f002", kind |-> "sync"]}

\* the request r has been handed to a handler
Handed(r) == srvReq[r].kind = "request" /\ srvKind[r] \in Kinds

\* C18: a request handed to a handler has at most one reply on the wire at
\* any time and exactly one once its completion handler is gone; the reply
\* is that of the first invocation (complete: the result; set_error with a
\* message: the message; set_error without: "Error during call"), later
\* invocations write nothing, and a completion handler destroyed uninvoked
\* writes "Call finished with no result".
C18_OneReply ==
    /\ [](\A r \in Requests : Handed(r) =>
            /\ Len(srvReplies[r]) <= 1
            /\ srvInvoked[r] <=> srvLog[r] # <<>>
            /\ srvSt[r] = "finished" => Len(srvReplies[r]) = 1
            /\ srvLog[r] # <<>> =>
                   /\ Len(srvReplies[r]) = 1
                   /\ srvReplies[r][1].v[1] = MpInt(RESPONSE)
                   /\ srvReplies[r][1].v[2] = MpInt(srvReq[r].id)
                   /\ srvLog[r][1] = "complete" =>
                          /\ srvReplies[r][1].v[3] = NIL
                          /\ srvReplies[r][1].v[4] = ResultValue
                   /\ srvLog[r][1] = "set_error_msg" =>
                          /\ srvReplies[r][1].v[3] = MpStr(kErrorMessage)
                          /\ srvReplies[r][1].v[4] = NIL
                   /\ srvLog[r][1] = "set_error" =>
                          /\ srvReplies[r][1].v[3] = MpStr("Error during call")
                          /\ srvReplies[r][1].v[4] = NIL
            /\ (srvSt[r] = "finished" /\ srvLog[r] = <<>>) =>
                   srvReplies[r] = <<Response(srvReq[r].id,
                       MpStr("Call finished with no result"), NIL)>>)
    /\ [][\A r \in Requests :
            srvReplies[r] # <<>> => srvReplies'[r] = srvReplies[r]]_vars

\* C18 witness: one completion handler was invoked twice, first with
\* set_error() and then with complete, and another was dropped uninvoked
C18_Witness ==
    \E r, q \in Requests :
        /\ Handed(r) /\ Handed(q)
        /\ srvSt[r] = "finished"
        /\ srvLog[r] = <<"set_error", "complete">>
        /\ Len(srvReplies[r]) = 1
        /\ srvSt[q] = "finished"
        /\ srvLog[q] = <<>>
        /\ Len(srvReplies[q]) = 1

\* the reply to request r that says the function is unknown
UnknownFunction(r) == Response(srvReq[r].id, MpStr("Unknown function"), NIL)

\* C19: the lookup of a method that is not registered when the message is
\* dispatched answers a request with one "Unknown function" reply, which
\* the client's dispatch hands to the caller as a call error under the id
\* of the request, and answers a notification with nothing; no handler is
\* started. A notification has no reply at any time.
C19_DispatchMiss ==
    /\ [](\A r \in Requests :
            /\ srvReq[r].kind = "notification" => srvReplies[r] = <<>>
            /\ (srvKind[r] = "miss" /\ srvReq[r].kind = "request") =>
                   /\ srvSt[r] = "finished"
                   /\ srvLog[r] = <<>>
                   /\ srvReplies[r] = <<UnknownFunction(r)>>
                   /\ verify_reponse(srvReplies[r][1])
                   /\ DispatchArgs(srvReplies[r][1].v[2].v, srvReplies[r][1].v[3],
                                   srvReplies[r][1].v[4]) =
                          [id |-> srvReq[r].id, ec |-> "call_error",
                           result |-> MpStr("Unknown function")])
    /\ [][\A r \in Requests :
            (srvSt[r] = "received" /\ srvSt'[r] # "received") =>
                (srvKind'[r] = "miss" <=> ~has(registry, srvReq[r].method))]_vars

\* C19 witness: a request for a method that was removed after the request
\* arrived got the one "Unknown function" reply, and a notification for it
\* got none
C19_Witness ==
    \E r, q \in Requests :
        /\ srvReq[r].kind = "request"
        /\ srvKind[r] = "miss"
        /\ srvReplies[r] = <<UnknownFunction(r)>>
        /\ dispRet = [op |-> "remove", name |-> srvReq[r].method, ret |-> TRUE]
        /\ srvReq[q].kind = "notification"
        /\ srvKind[q] = "miss"
        /\ srvSt[q] = "finished"
        /\ srvReplies[q] = <<>>

\* C20: maybe_start_reading starts a read chain only when it finds the flag
\* clear, so at most one chain is ever started, whoever calls it: the chain
\* exists exactly when the flag is set.
C20_SingleReadChain ==
    /\ [](/\ readChains <= 1
          /\ reading_ <=> readChains = 1
          /\ reading_ <=> readerSt # "off")
    /\ [][readChains' # readChains => (~reading_ /\ reading_')]_vars

\* C20 witness: two calls and a notification have all gone through
\* maybe_start_reading, the notification first
C20_Witness ==
    /\ readChains = 1
    /\ \A c \in Calls : callPc[c] \in {"write", "done"}
    /\ notifyPc[1] = "done"
    /\ callPc[1] = "write"
    /\ notifyOutcomes[1] = <<"success">>

\* C21: the call-table mutex is held only by a thread that is at its
\* insert or at its find and erase, and that thread can always go on and
\* release it; a thread that is about to run a completion does not hold it,
\* and every invocation of a completion is made by such a thread, on the
\* response path, the write-failure path and the timer path alike.
C21_HandlersOutsideLock ==
    /\ [](/\ \A t \in MchThreads :
                /\ mchPc[t] = "invoke" => pending_mutex_ # <<"mch", t>>
                /\ pending_mutex_ = <<"mch", t>> =>
                       (mchPc[t] = "find" /\ ENABLED MchFind(t))
          /\ \A c \in Calls :
                /\ timerSt[c] = "invoke" => pending_mutex_ # <<"timer", c>>
                /\ pending_mutex_ = <<"timer", c>> =>
                       (timerSt[c] = "find" /\ ENABLED TimerFind(c))
                /\ pending_mutex_ = <<"call", c>> =>
                       (callPc[c] = "emplace" /\ ENABLED CallEmplace(c)))
    /\ [][outcomes' # outcomes =>
             \/ \E t \in MchThreads :
                   /\ mchPc[t] = "invoke" /\ mchPc'[t] = "idle"
                   /\ pending_mutex_ # <<"mch", t>>
             \/ \E c \in Calls :
                   /\ timerSt[c] = "invoke" /\ timerSt'[c] = "done"
                   /\ pending_mutex_ # <<"timer", c>>]_vars

\* C21 witness: the reader is about to run the completion of a response
\* while a caller holds the mutex for its insert
C21_Witness ==
    /\ mchPc[Reader] = "invoke"
    /\ mchArg[Reader].ec = "success"
    /\ \E c \in Calls :
          /\ pending_mutex_ = <<"call", c>>
          /\ mchEntry[Reader].handler # c

\* the connection is lost: a read has failed and ended the read chain, or
\* the client has closed the socket
ConnectionLost == readerSt = "stopped" \/ ~socketOpen

\* the entry of c is in the table and the request of c was written
WrittenAndPending(c) == InTable(c) /\ writeSt[c] = "ok"

HalfWord == 65536
Halves(id) == <<(id \div HalfWord) % HalfWord, id % HalfWord>>

\* one more, and one less, modulo 2^32, on the halves
SuccHalves(w) ==
    IF w[2] = HalfWord - 1 THEN <<(w[1] + 1) % HalfWord, 0>> ELSE <<w[1], w[2] + 1>>
PredHalves(w) ==
    IF w[2] = 0 THEN <<(w[1] + HalfWord - 1) % HalfWord, HalfWord - 1>>
    ELSE <<w[1], w[2] - 1>>

\* async_call of c is between its fetch_add and its async_write
InAsyncCall(c) == callPc[c] \in {"lock", "emplace", "start_reading", "write"}

\* C23: the counter starts at 0; an async_call takes the value of the
\* counter as its id and leaves the counter one higher modulo 2^32, so that
\* the call after id 2^32 - 1 gets 0; nothing else moves the counter (2^32 - 1
\* calls move it one back), the id of a call never changes, and two callers
\* that are inside async_call together hold different ids.
C23_IdCounter ==
    /\ id_ = 0
    /\ [](\A c, d \in Calls :
            (c # d /\ InAsyncCall(c) /\ InAsyncCall(d)) => callId[c] # callId[d])
    /\ [][\A c \in Calls :
            IF callPc[c] = "idle" /\ callPc'[c] # "idle"
            THEN /\ callId'[c] = id_
                 /\ Halves(id_') = SuccHalves(Halves(id_))
                 /\ id_ = -1 => id_' = 0
            ELSE callId'[c] = callId[c]]_vars
    /\ [][id_' # id_ =>
             \/ \E c \in Calls : callPc[c] = "idle" /\ callPc'[c] = "lock"
             \/ callPc' = callPc /\ Halves(id_') = PredHalves(Halves(id_))]_vars

\* C23 witness: the first call got the id 0, and a later call got the id
\* 2^32 - 1 and left the counter at 0
C23_Witness ==
    /\ callId[1] = 0
    /\ callPc[1] = "done"
    /\ callId[2] = -1
    /\ Halves(callId[2]) = <<HalfWord - 1, HalfWord - 1>>
    /\ callPc[2] = "lock"
    /\ id_ = 0

\* C24: the dispatch of a well-formed response whose id has an entry in the
\* table, whatever the id, hands that id to maybe_call_handler, whose lookup
\* then takes the entry registered under it.
C24_WideIdCorrelation ==
    /\ [](mchPc[Reader] = "invoke" =>
             mchEntry[Reader].id = ToKey(mchArg[Reader].id))
    /\ [][(/\ readerSt = "dispatch"
           /\ readerSt' # "dispatch"
           /\ WellFormed(readerMsg)
           /\ Find(pending_, readerMsg.v[2].v) # {}) =>
              /\ readerSt' = "routing"
              /\ mchPc'[Reader] = "lock"
              /\ ToKey(mchArg'[Reader].id) = readerMsg.v[2].v]_vars

\* the delivered bytes are separators followed by one opener, the last byte
LeadingOpener ==
    /\ Delivered # <<>>
    /\ Delivered[Len(Delivered)] \in {"{", "["}
    /\ \A i \in 1..(Len(Delivered) - 1) : Delivered[i] = " "

\* C25: with no message in progress the opener is found wherever it lies in
\* the chunk: as long as no opener has been delivered the framer is idle and
\* has emitted nothing; when the first opener has just been delivered, after
\* any number of separators, it has been recorded and counted once (depth
\* 1); and every emitted buffer begins with an opener.
C25_OpenerAnyOffset ==
    ~aborted =>
        /\ ~OpenerDelivered => (buffer_ = 0 /\ Emitted = <<>>)
        /\ LeadingOpener =>
               /\ depth_ = 1
               /\ first_char_ = Delivered[Len(Delivered)]
               /\ ~in_string_
        /\ \A k \in 1..Len(Emitted) : Emitted[k][1] \in {"{", "["}

\* the closer that matches an opener
CloserOf(opener) == IF opener = "{" THEN "}" ELSE "]"

\* the input is a {...} message and a [...] message, one right after the
\* other, in either order
TwoKinds ==
    /\ Concatenated
    /\ Len(items) = 2
    /\ items[1][1] # items[2][1]

\* C26: when a {...} message and a [...] message follow each other, in
\* whatever chunks, the opener and the closer of the second are recorded
\* once its opener has been delivered, and once both are delivered each has
\* been emitted as its own buffer, from its opener to its matching closer.
C26_PairPerMessage ==
    (TwoKinds /\ ~aborted) =>
        /\ Delivered = items[1] \o <<items[2][1]>> =>
               /\ first_char_ = items[2][1]
               /\ last_char_ = CloserOf(items[2][1])
        /\ stream = <<>> =>
               /\ Emitted = items
               /\ \A k \in 1..Len(Emitted) :
                      Emitted[k][Len(Emitted[k])] = CloserOf(Emitted[k][1])

\* the request of c has been handed to the transport
HandedToTransport(c) ==
    writeSt[c] # "none" \/ c \in served \/ replies[c] # NoMsg \/ mchPc[c] # "idle"

\* an entry under the id of c has been taken out of the table
TakenOut(c) == \E d \in Calls : callId[d] = callId[c] /\ consumed[d] # <<>>

\* C27: async_call leaves its registration with an entry under its id in
\* the table, the timer of the entry it inserted armed when the timeout is
\* positive, and with nothing handed to the transport yet; the write is
\* submitted after that. So whenever the request is with the transport, its response
\* or its write failure being processed or not, the entry under its id is in
\* the table unless a timer, a response or a write failure took it out.
C27_RegisterBeforeWrite ==
    /\ [](\A c \in Calls :
            HandedToTransport(c) =>
                /\ callPc[c] = "done"
                /\ Find(pending_, callId[c]) # {} \/ TakenOut(c))
    /\ [][\A c \in Calls :
            (callPc[c] = "emplace" /\ callPc'[c] # "emplace") =>
                /\ ~HandedToTransport(c)'
                /\ Find(pending_', callId[c]) # {}
                /\ (timeout_ > 0 /\ pending_' # pending_) =>
                       /\ pending_' = pending_ \cup
                              {[id |-> callId[c], handler |-> c, timer |-> c]}
                       /\ timerSt'[c] = "armed"]_vars
    /\ [][\A c \in Calls :
            (~HandedToTransport(c) /\ HandedToTransport(c)') =>
                /\ callPc[c] = "write"
                /\ pending_' = pending_]_vars

\* C27 witness: the reader is looking up the response of a call and the
\* entry of that call is in the table, its timer armed
C27_Witness ==
    \E c \in Calls :
        /\ mchPc[Reader] = "find"
        /\ ToKey(mchArg[Reader].id) = callId[c]
        /\ [id |-> callId[c], handler |-> c, timer |-> c] \in pending_
        /\ callTimeout[c] > 0
        /\ timerSt[c] = "armed"

\* the ids in the table
TableIds == {e.id : e \in pending_}

\* C28 as stated: at every instant the ids in the table are exactly the ids
\* of the issued calls (those that have left their registration) whose
\* completion has not been invoked.
C28_TableIsUninvoked ==
    TableIds = {callId[c] : c \in {d \in Calls : Registered(d) /\ outcomes[d] = <<>>}}

\* C28, amended: the table changes only by the insertion of async_call and
\* by the find-and-erase of a timer handler or of maybe_call_handler, which
\* erases one entry and keeps it; the thread that erased an entry is the one
\* that invokes the completion of that entry, once. So every entry in the
\* table belongs to a registered call whose completion has not been invoked,
\* and a registered call whose completion has not been invoked has an entry
\* under its id in the table unless an entry under that id has been erased.
C28_NoSilentRemoval ==
    /\ [](/\ \A e \in pending_ :
                /\ Registered(e.handler)
                /\ e.id = callId[e.handler]
                /\ consumed[e.handler] = <<>>
                /\ outcomes[e.handler] = <<>>
          /\ \A c \in Calls :
                /\ (Registered(c) /\ outcomes[c] = <<>>) =>
                       (callId[c] \in TableIds \/ TakenOut(c))
                /\ Len(consumed[c]) <= 1
                /\ outcomes[c] # <<>> => consumed[c] # <<>>
                /\ consumed[c] # <<>> =>
                       IF BeingCompleted(c) THEN outcomes[c] = <<>>
                       ELSE Len(outcomes[c]) = 1)
    /\ [][pending_' # pending_ =>
             \/ \E c \in Calls :
                   /\ callPc[c] = "emplace"
                   /\ pending_' = pending_ \cup
                          {[id |-> callId[c], handler |-> c, timer |-> c]}
             \/ \E e \in pending_ :
                   /\ pending_' = pending_ \ {e}
                   /\ \/ \E t \in MchThreads :
                            /\ mchPc[t] = "find" /\ mchPc'[t] = "invoke"
                            /\ mchEntry'[t] = e
                      \/ \E k \in Calls :
                            /\ timerSt[k] = "find" /\ timerSt'[k] = "invoke"
                            /\ timerEntry'[k] = e]_vars
    /\ [][outcomes' # outcomes =>
             \E c \in Calls :
                 /\ BeingCompleted(c)
                 /\ ~BeingCompleted(c)'
                 /\ Len(outcomes'[c]) = Len(outcomes[c]) + 1
                 /\ \A d \in Calls \ {c} : outcomes'[d] = outcomes[d]]_vars

\* C28 witness: the entry of one call has been erased and its completion
\* is about to be invoked, while the entry of another call is in the table
C28_Witness ==
    \E c, d \in Calls :
        /\ c # d
        /\ BeingCompleted(c)
        /\ consumed[c] # <<>>
        /\ outcomes[c] = <<>>
        /\ callId[c] \notin TableIds
        /\ InTable(d)

\* C29: once initialize has run, whatever the chunks in which the messages
\* and their separators are delivered, the depth is never negative, and
\* when it is 0 the framer is not inside a string.
C29_DepthInvariant ==
    (OpenerDelivered /\ ~aborted) =>
        /\ depth_ >= 0
        /\ depth_ = 0 => ~in_string_

\* C30: the reading flag, once set, is never cleared. After the read chain
\* has stopped on a failed read, no async_call and no async_notify starts
\* another chain: the chain stays stopped, nothing is taken from the
\* transport and no response is routed, and every completion invoked from
\* then on comes from a timer or from a failed write.
C30_ReadingNeverCleared ==
    /\ [](readerSt = "stopped" => (reading_ /\ mchPc[Reader] = "idle"))
    /\ [][reading_ => reading_']_vars
    /\ [][readerSt = "stopped" =>
            /\ readerSt' = "stopped"
            /\ readChains' = readChains
            /\ wire \subseteq wire'
            /\ readerMsg' = readerMsg
            /\ \A c \in Calls :
                  outcomes'[c] # outcomes[c] =>
                      /\ Len(outcomes'[c]) = Len(outcomes[c]) + 1
                      /\ outcomes'[c][Len(outcomes'[c])].ec \in
                             {"timeout"} \cup WriteErrors]_vars

\* C30 witness: the chain started by call 1 has stopped; call 2 and the
\* notification went through maybe_start_reading afterwards and no chain
\* was started; call 2 was answered by the server, its response is still on
\* the transport, and it was completed by its timer
C30_Witness ==
    /\ readerSt = "stopped"
    /\ readChains = 1
    /\ reading_
    /\ notifyPc[1] = "done"
    /\ callPc[2] = "done"
    /\ 2 \in served
    /\ replies[2] \in wire
    /\ outcomes[2] = <<HandlerArgs("timeout", Message("timeout"))>>

\* the framer alone, beside a client that does nothing
FramerSpecInit == FramerInit /\ ClientInit /\ ServerInit

FramerSpec == FramerSpecInit /\ [][FramerNext]_vars
====
